---- MODULE Spec2Model ----
(***************************************************************************)
(* Model of debug.py: the --diag harness that attaches to a process,       *)
(* injects a wrapped script, logs the messages it sends, probes the        *)
(* export from the host side, waits and detaches.                          *)
(*                                                                         *)
(* Host thread: __main__ -> run_diag, one action per statement that has an *)
(* outcome of its own.  Target side: the wrapper (wrapped_js) runs during  *)
(* script.load().  Messages travel through chan and are handed to          *)
(* _on_message by the instrumentation runtime, asynchronously.             *)
(***************************************************************************)
EXTENDS Integers, Sequences, FiniteSets, TLC

\* ---------------------------------------------------------------- bounds
MaxWait == 2        \* largest --wait value tried (sleep ticks)
MaxExtra == 1       \* messages the runtime delivers besides the wrapper's own

\* ---------------------------------------------------------------- inputs
ProcNames == {"QQMusic.exe", "other.exe"}
WaitValues == (-1)..MaxWait     \* --wait is type=float: negative values parse

\* What the text of the script file does when it runs inside the wrapper.
\* rpc is the state of the export registry once the body has run.
RpcStates == {"undeclared", "undefined", "exports_undefined", "exports_null",
              "exports_empty", "exports_decrypt_fn", "exports_decrypt_other",
              "exports_getter_throws"}
NoBody == [throws |-> FALSE, rpc |-> "exports_empty"]
\* a body that throws at top level leaves the registry as the runtime made it
Bodies == {[throws |-> TRUE, rpc |-> "exports_empty"]}
          \cup [throws : {FALSE}, rpc : RpcStates]

\* ------------------------------------------------------- python values
\* Classes of values a message field can hold.
PyVals == {"None", "EmptyStr", "Str", "Zero", "Int"}
Truthy(v) == v \in {"Str", "Int"}
IsStr(v) == v \in {"EmptyStr", "Str"}
\* desc or ""
OrEmpty(v) == IF Truthy(v) THEN v ELSE "EmptyStr"

\* ------------------------------------------------------------- payloads
Payload(stage, msg, hasDecrypt, exportKeys, error, stack) ==
  [stage |-> stage, msg |-> msg, hasDecrypt |-> hasDecrypt,
   exportKeys |-> exportKeys, error |-> error, stack |-> stack]
NoPayload == Payload("absent", "absent", "absent", "absent", "absent", "absent")
BootMsg == Payload("boot", "js wrapper entered", "absent", "absent", "absent", "absent")
FinishedMsg ==
  Payload("boot", "js wrapper finished (top-level ok)", "absent", "absent", "absent", "absent")
FatalMsg == Payload("fatal", "absent", "absent", "absent", "String(e)", "String(e.stack)")
BodyMsg == Payload("body", "absent", "absent", "absent", "absent", "absent")

\* The export check of the wrapper, evaluated as JavaScript evaluates it:
\*   hasDecrypt = (typeof rpc !== "undefined") && rpc.exports
\*                && (typeof rpc.exports.decrypt === "function")
\*   exportKeys = rpc && rpc.exports ? Object.keys(rpc.exports) : null
ExportsFalsy(r) == r \in {"exports_undefined", "exports_null"}
\* variant: tests that the key exists, not that it is a function
HasDecryptValue_AnyKey(r) ==
  IF r \in {"undeclared", "undefined"} THEN "false"
  ELSE IF r = "exports_undefined" THEN "undefined"
  ELSE IF r = "exports_null" THEN "null"
  ELSE IF r \in {"exports_decrypt_fn", "exports_decrypt_other"} THEN "true"
  ELSE "false"
HasDecryptValue(r) ==
  IF r \in {"undeclared", "undefined"} THEN "false"
  ELSE IF r = "exports_undefined" THEN "undefined"
  ELSE IF r = "exports_null" THEN "null"
  ELSE IF r = "exports_decrypt_fn" THEN "true"
  ELSE "false"
ExportKeysValue(r) ==
  IF r = "undefined" \/ ExportsFalsy(r) THEN "null"
  ELSE IF r = "exports_empty" THEN "[]"
  ELSE "[decrypt]"
\* reading rpc.exports.decrypt runs a throwing getter; the bare identifier
\* rpc in the exportKeys expression is a ReferenceError when rpc is undeclared
CheckThrows(r) == r \in {"exports_getter_throws", "undeclared"}
ExportCheck(r) ==
  IF CheckThrows(r)
  THEN Payload("exports", "absent", "absent", "absent", "String(e)", "absent")
  ELSE Payload("exports", "absent", HasDecryptValue(r), ExportKeysValue(r), "absent", "absent")

\* ------------------------------------------------------------- messages
Message(mapping, type, payload, description, stack) ==
  [mapping |-> mapping, type |-> type, payload |-> payload,
   description |-> description, stack |-> stack]
SendMessage(p) == Message(TRUE, "send", p, "None", "None")
\* the runtime's report of an exception that left the script
UncaughtError == Message(TRUE, "error", NoPayload, "Str", "Str")
\* what else the runtime hands to the callback during a run: the body's
\* own send() calls and errors thrown later by its hooks
ExtraMessages ==
  {SendMessage(BodyMsg),
   Message(TRUE, "error", NoPayload, "Str", "None")}
\* every shape of argument the callback can be given
AllMessages ==
  {Message(FALSE, "absent", NoPayload, "None", "None"),
   SendMessage(BodyMsg), SendMessage(BootMsg),
   Message(TRUE, "log", NoPayload, "None", "None")}
  \cup {Message(TRUE, "error", NoPayload, d, s) : d \in PyVals, s \in PyVals}

\* ------------------------------------------------------------------ log
Rec(level, msg) == [level |-> level, msg |-> msg]


\* _on_message, lines 17-29: the body of the try.  exc is TRUE when a
\* statement raised; logs are the lines written before that.
TryBody(m) ==
  IF ~m.mapping
  THEN [logs |-> <<>>, exc |-> TRUE]                \* message.get: AttributeError
  ELSE IF m.type = "send"
  THEN [logs |-> <<Rec("INFO", "js_send")>>, exc |-> FALSE]
  ELSE IF m.type = "error"
  THEN IF ~IsStr(OrEmpty(m.description))
       THEN [logs |-> <<>>, exc |-> TRUE]           \* str + non-str: TypeError
       ELSE IF ~Truthy(m.stack)
       THEN [logs |-> <<Rec("ERROR", "js_error")>>, exc |-> FALSE]
       ELSE IF IsStr(m.stack)
       THEN [logs |-> <<Rec("ERROR", "js_error"), Rec("ERROR", "js_stack")>>,
             exc |-> FALSE]
       ELSE [logs |-> <<Rec("ERROR", "js_error")>>, exc |-> TRUE]
  ELSE [logs |-> <<Rec("INFO", "js_message")>>, exc |-> FALSE]

\* variant: no except clause around the body
OnMessage_NoExcept(m) ==
  LET t == TryBody(m)
  IN  [logs |-> t.logs, raised |-> t.exc]

\* _on_message, lines 12-31: try body plus the except clause.
OnMessage(m) ==
  LET t == TryBody(m)
  IN  [logs |-> IF t.exc THEN Append(t.logs, Rec("ERROR", "parse_failed")) ELSE t.logs,
       raised |-> FALSE]

\* ---------------------------------------------------------------- state
VARIABLES
  diag,          \* args.diag
  process_name,  \* args.proc
  wait_seconds,  \* args.wait
  fileExists,    \* os.path.exists(js_path)
  running,       \* names of the processes that are running
  pc,            \* position of the host thread
  rc,            \* value returned by run_diag (-1 before it returns)
  exitStatus,    \* status the interpreter exits with (-1 before)
  stdout,        \* lines printed
  log,           \* log records, in the order written
  hist,          \* calls the host thread has made, in order
  session,       \* "none", "attached", "detached"
  script,        \* "none", "created", "loaded"
  handler,       \* TRUE once script.on("message", _on_message) returned
  raw_js,        \* behaviour of the text read from js_path
  wpc,           \* position of the wrapper inside the target
  sent,          \* payloads the wrapper has passed to send(), in order
  chan,          \* messages on their way to the callback
  extra,         \* number of messages added by the runtime or the body
  sinkCalls,     \* invocations of _on_message
  sinkRaised,    \* TRUE if an invocation of _on_message raised
  attachErr,     \* outcome of frida.attach
  injectErr,     \* statement of the inject block that raised, or "none"
  probeErr,      \* outcome of the host-side probe
  detachRaised,  \* TRUE if session.detach() raised
  sleepLeft      \* ticks of time.sleep still to go

vars == <<diag, process_name, wait_seconds, fileExists, running, pc, rc,
          exitStatus, stdout, log, hist, session, script, handler, raw_js,
          wpc, sent, chan, extra, sinkCalls, sinkRaised, attachErr,
          injectErr, probeErr, detachRaised, sleepLeft>>

inputs == <<diag, process_name, wait_seconds, fileExists, running>>
target == <<raw_js, wpc, sent>>
sink == <<sinkCalls, sinkRaised>>

Count(op) == Cardinality({i \in DOMAIN hist : hist[i] = op})

Init ==
  /\ diag \in BOOLEAN
  /\ process_name \in ProcNames
  /\ wait_seconds \in WaitValues
  /\ fileExists \in BOOLEAN
  /\ running \in SUBSET {"QQMusic.exe"}
  /\ pc = "main"
  /\ rc = -1
  /\ exitStatus = -1
  /\ stdout = <<>>
  /\ log = <<>>
  /\ hist = <<>>
  /\ session = "none"
  /\ script = "none"
  /\ handler = FALSE
  /\ raw_js = NoBody
  /\ wpc = "idle"
  /\ sent = <<>>
  /\ chan = <<>>
  /\ extra = 0
  /\ sinkCalls = 0
  /\ sinkRaised = FALSE
  /\ attachErr = "none"
  /\ injectErr = "none"
  /\ probeErr = "none"
  /\ detachRaised = FALSE
  /\ sleepLeft = 0

\* variant: run_diag is called whether or not --diag was given
Main_IgnoresDiag ==
  /\ pc = "main"
  /\ pc' = "check_file"
  /\ hist' = Append(hist, "run_diag")
  /\ UNCHANGED <<stdout, exitStatus>>
  /\ UNCHANGED <<inputs, rc, log, session, script, handler, target, chan,
                 extra, sink, attachErr, injectErr, probeErr, detachRaised,
                 sleepLeft>>

\* ------------------------------------------------------------ __main__
\* lines 128-140: parse the arguments, run the diagnosis or print usage
Main ==
  /\ pc = "main"
  /\ IF diag
     THEN /\ pc' = "check_file"
          /\ hist' = Append(hist, "run_diag")
          /\ UNCHANGED <<stdout, exitStatus>>
     ELSE /\ pc' = "exited"
          /\ stdout' = <<"usage_1", "usage_2">>
          /\ exitStatus' = 0
          /\ UNCHANGED hist
  /\ UNCHANGED <<inputs, rc, log, session, script, handler, target, chan,
                 extra, sink, attachErr, injectErr, probeErr, detachRaised,
                 sleepLeft>>

\* line 136: sys.exit(run_diag(...)); an exception leaving run_diag ends the
\* interpreter with a traceback and status 1
SysExit ==
  /\ pc \in {"returned", "raised"}
  /\ pc' = "exited"
  /\ exitStatus' = IF pc = "returned" THEN rc ELSE 1
  /\ UNCHANGED <<inputs, rc, stdout, log, hist, session, script, handler,
                 target, chan, extra, sink, attachErr, injectErr, probeErr,
                 detachRaised, sleepLeft>>

\* variant: the error is logged but the return is missing
CheckFile_NoReturn ==
  /\ pc = "check_file"
  /\ hist' = Append(hist, "exists")
  /\ pc' = "attach"
  /\ log' = IF fileExists THEN log
            ELSE Append(log, Rec("ERROR", "script_not_found"))
  /\ UNCHANGED rc
  /\ UNCHANGED <<inputs, exitStatus, stdout, session, script, handler, target,
                 chan, extra, sink, attachErr, injectErr, probeErr,
                 detachRaised, sleepLeft>>

\* ------------------------------------------------------------ run_diag
\* lines 39-41
CheckFile ==
  /\ pc = "check_file"
  /\ hist' = Append(hist, "exists")
  /\ IF fileExists
     THEN /\ pc' = "attach"
          /\ UNCHANGED <<log, rc>>
     ELSE /\ log' = Append(log, Rec("ERROR", "script_not_found"))
          /\ rc' = 2
          /\ pc' = "returned"
  /\ UNCHANGED <<inputs, exitStatus, stdout, session, script, handler, target,
                 chan, extra, sink, attachErr, injectErr, probeErr,
                 detachRaised, sleepLeft>>

\* what frida.attach(process_name) can do
AttachOutcomes ==
  IF process_name \in running THEN {"ok", "OtherError"}
  ELSE {"ProcessNotFoundError"}

\* variant: the general clause comes first and catches everything
AttachHandler_GeneralFirst(e) == Rec("ERROR", "attach_failed")

\* lines 45-50: the except clauses, tried in order
AttachHandler(e) ==
  IF e = "ProcessNotFoundError" THEN Rec("ERROR", "process_not_found")
  ELSE Rec("ERROR", "attach_failed")

\* lines 43-50
Attach ==
  /\ pc = "attach"
  /\ hist' = Append(hist, "attach")
  /\ \E e \in AttachOutcomes :
       /\ attachErr' = e
       /\ IF e = "ok"
          THEN /\ session' = "attached"
               /\ pc' = "read"
               /\ UNCHANGED <<log, rc>>
          ELSE /\ log' = Append(log, AttachHandler(e))
               /\ rc' = 2
               /\ pc' = "returned"
               /\ UNCHANGED session
  /\ UNCHANGED <<inputs, exitStatus, stdout, script, handler, target, chan,
                 extra, sink, injectErr, probeErr, detachRaised, sleepLeft>>

\* lines 53-54: open and read the file; the text decides what the body does
ReadFile ==
  /\ pc = "read"
  /\ hist' = Append(hist, "read")
  /\ \/ /\ \E b \in Bodies : raw_js' = b
        /\ pc' = "create"
        /\ UNCHANGED injectErr
     \/ /\ injectErr' = "read"
        /\ pc' = "except"
        /\ UNCHANGED raw_js
  /\ UNCHANGED <<inputs, rc, exitStatus, stdout, log, session, script, handler,
                 wpc, sent, chan, extra, sink, attachErr, probeErr,
                 detachRaised, sleepLeft>>

\* line 83
CreateScript ==
  /\ pc = "create"
  /\ hist' = Append(hist, "create_script")
  /\ \/ /\ script' = "created"
        /\ pc' = "on"
        /\ UNCHANGED injectErr
     \/ /\ injectErr' = "create_script"
        /\ pc' = "except"
        /\ UNCHANGED script
  /\ UNCHANGED <<inputs, rc, exitStatus, stdout, log, session, handler, target,
                 chan, extra, sink, attachErr, probeErr, detachRaised,
                 sleepLeft>>

\* variant: a failure of script.on is ignored and the script is loaded
RegisterHandler_IgnoresFailure ==
  /\ pc = "on"
  /\ hist' = Append(hist, "on")
  /\ pc' = "load"
  /\ \E ok \in BOOLEAN : handler' = ok
  /\ UNCHANGED injectErr
  /\ UNCHANGED <<inputs, rc, exitStatus, stdout, log, session, script, target,
                 chan, extra, sink, attachErr, probeErr, detachRaised,
                 sleepLeft>>

\* line 84
RegisterHandler ==
  /\ pc = "on"
  /\ hist' = Append(hist, "on")
  /\ \/ /\ handler' = TRUE
        /\ pc' = "load"
        /\ UNCHANGED injectErr
     \/ /\ injectErr' = "on"
        /\ pc' = "except"
        /\ UNCHANGED handler
  /\ UNCHANGED <<inputs, rc, exitStatus, stdout, log, session, script, target,
                 chan, extra, sink, attachErr, probeErr, detachRaised,
                 sleepLeft>>

\* line 85: script.load() either fails before the script runs or starts the
\* wrapper inside the target and blocks until it has run
LoadStart ==
  /\ pc = "load"
  /\ hist' = Append(hist, "load")
  /\ \/ /\ wpc' = "boot"
        /\ pc' = "loading"
        /\ UNCHANGED injectErr
     \/ /\ injectErr' = "load"
        /\ pc' = "except"
        /\ UNCHANGED wpc
  /\ UNCHANGED <<inputs, rc, exitStatus, stdout, log, session, script, handler,
                 raw_js, sent, chan, extra, sink, attachErr, probeErr,
                 detachRaised, sleepLeft>>

\* line 85: the wrapper has run to its end or thrown; load returns, or
\* reports a failure of its own
LoadReturn ==
  /\ pc = "loading"
  /\ wpc \in {"end", "threw"}
  /\ \/ /\ script' = "loaded"
        /\ pc' = "probe"
        /\ UNCHANGED injectErr
     \/ /\ injectErr' = "load"
        /\ pc' = "except"
        /\ UNCHANGED script
  /\ UNCHANGED <<inputs, rc, exitStatus, stdout, log, hist, session, handler,
                 target, chan, extra, sink, attachErr, probeErr, detachRaised,
                 sleepLeft>>

\* session.detach(): a call that raised may have left the session as it was
DetachResult(raised) ==
  IF raised THEN {"attached", "detached"} ELSE {"detached"}

\* variant: the handler returns without detaching
InjectFailed_NoDetach ==
  /\ pc = "except"
  /\ log' = Append(log, Rec("ERROR", "load_failed"))
  /\ rc' = 2
  /\ pc' = "returned"
  /\ UNCHANGED <<inputs, exitStatus, stdout, hist, session, script, handler,
                 target, chan, extra, sink, attachErr, injectErr, probeErr,
                 detachRaised, sleepLeft>>

\* lines 86-92: log the failure, detach (errors swallowed), return 2
InjectFailed ==
  /\ pc = "except"
  /\ log' = Append(log, Rec("ERROR", "load_failed"))
  /\ hist' = Append(hist, "detach")
  /\ \E r \in BOOLEAN :
       /\ detachRaised' = r
       /\ session' \in DetachResult(r)
  /\ rc' = 2
  /\ pc' = "returned"
  /\ UNCHANGED <<inputs, exitStatus, stdout, script, handler, target, chan,
                 extra, sink, attachErr, injectErr, probeErr, sleepLeft>>


\* ------------------------------------------------------------- wrapper
\* line 60
WBoot ==
  /\ wpc = "boot"
  /\ sent' = Append(sent, BootMsg)
  /\ chan' = Append(chan, SendMessage(BootMsg))
  /\ wpc' = "body"
  /\ UNCHANGED <<inputs, pc, rc, exitStatus, stdout, log, hist, session,
                 script, handler, raw_js, extra, sink, attachErr, injectErr,
                 probeErr, detachRaised, sleepLeft>>

\* lines 59-75: where control goes when the body has run
AfterBody(b) == IF b.throws THEN "fatal" ELSE "finished"

\* line 62
WBody ==
  /\ wpc = "body"
  /\ wpc' = AfterBody(raw_js)
  /\ UNCHANGED <<inputs, pc, rc, exitStatus, stdout, log, hist, session,
                 script, handler, raw_js, sent, chan, extra, sink, attachErr,
                 injectErr, probeErr, detachRaised, sleepLeft>>

\* line 65
WFinished ==
  /\ wpc = "finished"
  /\ sent' = Append(sent, FinishedMsg)
  /\ chan' = Append(chan, SendMessage(FinishedMsg))
  /\ wpc' = "check"
  /\ UNCHANGED <<inputs, pc, rc, exitStatus, stdout, log, hist, session,
                 script, handler, raw_js, extra, sink, attachErr, injectErr,
                 probeErr, detachRaised, sleepLeft>>

\* variant: no inner try, a failing check lands in the outer catch
WCheck_NoInnerCatch ==
  /\ wpc = "check"
  /\ IF CheckThrows(raw_js.rpc)
     THEN /\ wpc' = "fatal"
          /\ UNCHANGED <<sent, chan>>
     ELSE /\ sent' = Append(sent, ExportCheck(raw_js.rpc))
          /\ chan' = Append(chan, SendMessage(ExportCheck(raw_js.rpc)))
          /\ wpc' = "end"
  /\ UNCHANGED <<inputs, pc, rc, exitStatus, stdout, log, hist, session,
                 script, handler, raw_js, extra, sink, attachErr, injectErr,
                 probeErr, detachRaised, sleepLeft>>

\* lines 68-73
WCheck ==
  /\ wpc = "check"
  /\ sent' = Append(sent, ExportCheck(raw_js.rpc))
  /\ chan' = Append(chan, SendMessage(ExportCheck(raw_js.rpc)))
  /\ wpc' = "end"
  /\ UNCHANGED <<inputs, pc, rc, exitStatus, stdout, log, hist, session,
                 script, handler, raw_js, extra, sink, attachErr, injectErr,
                 probeErr, detachRaised, sleepLeft>>

\* variant: the outer catch rethrows without sending
CatchOuter_Silent == [msgs |-> <<>>, next |-> "rethrow"]

\* lines 75-78: what the outer catch sends, and where it goes next
CatchOuter == [msgs |-> <<FatalMsg>>, next |-> "rethrow"]

\* line 77
WFatal ==
  /\ wpc = "fatal"
  /\ sent' = sent \o CatchOuter.msgs
  /\ chan' = chan \o [i \in DOMAIN CatchOuter.msgs |-> SendMessage(CatchOuter.msgs[i])]
  /\ wpc' = CatchOuter.next
  /\ UNCHANGED <<inputs, pc, rc, exitStatus, stdout, log, hist, session,
                 script, handler, raw_js, extra, sink, attachErr, injectErr,
                 probeErr, detachRaised, sleepLeft>>

\* line 78: throw e leaves the wrapper; the runtime reports it as an error
\* message
WRethrow ==
  /\ wpc = "rethrow"
  /\ chan' = Append(chan, UncaughtError)
  /\ wpc' = "threw"
  /\ UNCHANGED <<inputs, pc, rc, exitStatus, stdout, log, hist, session,
                 script, handler, raw_js, sent, extra, sink, attachErr,
                 injectErr, probeErr, detachRaised, sleepLeft>>

\* ------------------------------------------------- run_diag, continued
ProbeOutcomes == {"ok", "getattr_raises", "exports_sync_raises"}

\* lines 96-107: the line the probe logs
ProbeLog(o) ==
  IF o = "ok" THEN Rec("INFO", "py_found_decrypt")
  ELSE IF o = "getattr_raises" THEN Rec("ERROR", "py_getattr_failed")
  ELSE Rec("ERROR", "py_exports_unavailable")

\* variant: the attribute found is also called
ProbeCalls_Invokes(o) ==
  IF o = "exports_sync_raises" THEN <<"exports_sync">>
  ELSE IF o = "getattr_raises" THEN <<"exports_sync", "getattr_decrypt">>
  ELSE <<"exports_sync", "getattr_decrypt", "decrypt">>

\* lines 98-103: what the probe touches on the script
ProbeCalls(o) ==
  IF o = "exports_sync_raises" THEN <<"exports_sync">>
  ELSE <<"exports_sync", "getattr_decrypt">>

\* where the host thread goes after the probe
AfterProbe(o) == "sleep"

\* lines 96-107
Probe ==
  /\ pc = "probe"
  /\ \E o \in ProbeOutcomes :
       /\ probeErr' = o
       /\ hist' = hist \o ProbeCalls(o)
       /\ log' = Append(log, ProbeLog(o))
       /\ pc' = AfterProbe(o)
  /\ UNCHANGED <<inputs, rc, exitStatus, stdout, session, script, handler,
                 target, chan, extra, sink, attachErr, injectErr,
                 detachRaised, sleepLeft>>

\* line 110: time.sleep raises ValueError for a negative length
SleepRaises(w) == w < 0

\* lines 109-110: log, then enter the sleep
SleepStart ==
  /\ pc = "sleep"
  /\ log' = Append(log, Rec("INFO", "waiting"))
  /\ hist' = Append(hist, "sleep")
  /\ IF SleepRaises(wait_seconds)
     THEN /\ pc' = "raised"
          /\ UNCHANGED sleepLeft
     ELSE /\ pc' = "sleeping"
          /\ sleepLeft' = wait_seconds
  /\ UNCHANGED <<inputs, rc, exitStatus, stdout, session, script, handler,
                 target, chan, extra, sink, attachErr, injectErr, probeErr,
                 detachRaised>>

\* line 110: time passes
SleepTick ==
  /\ pc = "sleeping"
  /\ sleepLeft > 0
  /\ sleepLeft' = sleepLeft - 1
  /\ hist' = Append(hist, "tick")
  /\ UNCHANGED <<inputs, pc, rc, exitStatus, stdout, log, session, script,
                 handler, target, chan, extra, sink, attachErr, injectErr,
                 probeErr, detachRaised>>

\* variant: the sleep is cut short
SleepReturn_Early ==
  /\ pc = "sleeping"
  /\ pc' = "detach"
  /\ hist' = Append(hist, "sleep_done")
  /\ UNCHANGED <<inputs, rc, exitStatus, stdout, log, session, script, handler,
                 target, chan, extra, sink, attachErr, injectErr, probeErr,
                 detachRaised, sleepLeft>>

\* line 110: the sleep is over
SleepReturn ==
  /\ pc = "sleeping"
  /\ sleepLeft = 0
  /\ pc' = "detach"
  /\ hist' = Append(hist, "sleep_done")
  /\ UNCHANGED <<inputs, rc, exitStatus, stdout, log, session, script, handler,
                 target, chan, extra, sink, attachErr, injectErr, probeErr,
                 detachRaised, sleepLeft>>

\* variant: no try around detach, its exception leaves run_diag
Detach_Propagates ==
  /\ pc = "detach"
  /\ hist' = Append(hist, "detach")
  /\ \E r \in BOOLEAN :
       /\ detachRaised' = r
       /\ session' \in DetachResult(r)
       /\ pc' = IF r THEN "raised" ELSE "finish"
  /\ UNCHANGED <<inputs, rc, exitStatus, stdout, log, script, handler, target,
                 chan, extra, sink, attachErr, injectErr, probeErr, sleepLeft>>

\* lines 112-115: detach, any error swallowed
Detach ==
  /\ pc = "detach"
  /\ hist' = Append(hist, "detach")
  /\ \E r \in BOOLEAN :
       /\ detachRaised' = r
       /\ session' \in DetachResult(r)
  /\ pc' = "finish"
  /\ UNCHANGED <<inputs, rc, exitStatus, stdout, log, script, handler, target,
                 chan, extra, sink, attachErr, injectErr, probeErr, sleepLeft>>

\* variant: a fatal message from the wrapper makes the run fail
Finish_FailsOnFatal ==
  /\ pc = "finish"
  /\ log' = Append(log, Rec("INFO", "diag_end"))
  /\ rc' = IF \E i \in DOMAIN sent : sent[i].stage = "fatal" THEN 2 ELSE 0
  /\ pc' = "returned"
  /\ UNCHANGED <<inputs, exitStatus, stdout, hist, session, script, handler,
                 target, chan, extra, sink, attachErr, injectErr, probeErr,
                 detachRaised, sleepLeft>>

\* lines 117-118
Finish ==
  /\ pc = "finish"
  /\ log' = Append(log, Rec("INFO", "diag_end"))
  /\ rc' = 0
  /\ pc' = "returned"
  /\ UNCHANGED <<inputs, exitStatus, stdout, hist, session, script, handler,
                 target, chan, extra, sink, attachErr, injectErr, probeErr,
                 detachRaised, sleepLeft>>

\* ------------------------------------------------------ message channel
\* the runtime hands the oldest message to the registered callback, as long
\* as the interpreter lives
Deliver ==
  /\ pc /= "exited"
  /\ chan /= <<>>
  /\ handler
  /\ session = "attached"
  /\ LET r == OnMessage(Head(chan))
     IN  /\ log' = log \o r.logs
         /\ sinkRaised' = (sinkRaised \/ r.raised)
  /\ sinkCalls' = sinkCalls + 1
  /\ chan' = Tail(chan)
  /\ UNCHANGED <<inputs, pc, rc, exitStatus, stdout, hist, session, script,
                 handler, target, extra, attachErr, injectErr, probeErr,
                 detachRaised, sleepLeft>>

\* the body's own send() calls, runtime errors raised later
ExtraMessage ==
  /\ wpc /= "idle"
  /\ session = "attached"
  /\ extra < MaxExtra
  /\ \E m \in ExtraMessages : chan' = Append(chan, m)
  /\ extra' = extra + 1
  /\ UNCHANGED <<inputs, pc, rc, exitStatus, stdout, log, hist, session,
                 script, handler, target, sink, attachErr, injectErr,
                 probeErr, detachRaised, sleepLeft>>

Next ==
  \/ Main
  \/ SysExit
  \/ CheckFile
  \/ Attach
  \/ ReadFile
  \/ CreateScript
  \/ RegisterHandler
  \/ LoadStart
  \/ LoadReturn
  \/ InjectFailed
  \/ WBoot
  \/ WBody
  \/ WFinished
  \/ WCheck
  \/ WFatal
  \/ WRethrow
  \/ Probe
  \/ SleepStart
  \/ SleepTick
  \/ SleepReturn
  \/ Detach
  \/ Finish
  \/ Deliver
  \/ ExtraMessage

Spec == Init /\ [][Next]_vars

TypeOK ==
  /\ rc \in {-1, 0, 2}
  /\ exitStatus \in {-1, 0, 1, 2}
  /\ session \in {"none", "attached", "detached"}
  /\ extra \in 0..MaxExtra
  /\ sleepLeft \in 0..MaxWait

\* ------------------------------------------------- the callback alone
MaxBatch == 2       \* messages pending when the callback is exercised alone

Batches == UNION {[1..n -> AllMessages] : n \in 1..MaxBatch}

\* the host thread sits in time.sleep after a clean injection while the
\* runtime hands over messages of every shape
InitSink ==
  /\ diag = TRUE
  /\ process_name = "QQMusic.exe"
  /\ wait_seconds = MaxWait
  /\ fileExists = TRUE
  /\ running = {"QQMusic.exe"}
  /\ pc = "sleeping"
  /\ rc = -1
  /\ exitStatus = -1
  /\ stdout = <<>>
  /\ log = <<>>
  /\ hist = <<"run_diag", "exists", "attach", "read", "create_script", "on",
              "load", "exports_sync", "getattr_decrypt", "sleep">>
  /\ session = "attached"
  /\ script = "loaded"
  /\ handler = TRUE
  /\ raw_js = NoBody
  /\ wpc = "end"
  /\ sent = <<>>
  /\ chan \in Batches
  /\ extra = 0
  /\ sinkCalls = 0
  /\ sinkRaised = FALSE
  /\ attachErr = "ok"
  /\ injectErr = "none"
  /\ probeErr = "ok"
  /\ detachRaised = FALSE
  /\ sleepLeft = MaxWait

NextSink == Deliver

SinkSpec == InitSink /\ [][NextSink]_vars


\* =============================================================== claims
Ended == pc \in {"returned", "exited"} /\ diag
Fatal(p) == p.stage = "fatal"
NoFatalSent == \A i \in DOMAIN sent : ~Fatal(sent[i])

\* ------------------------------------------------------------------ C1
\* C1, as stated: every run of run_diag that has returned has called
\* detach exactly once, whichever step failed.
C1_DetachOncePerRun == (pc = "returned") => (Count("detach") = 1)

\* C1, amended: detach is never called twice; a run that has returned has
\* called it once if attach succeeded and not at all otherwise; the code it
\* returns is 2 exactly when a step before detach failed, whether or not
\* detach raised; the only run that does not return is one given a negative
\* wait.
C1_DetachOncePerSession ==
  /\ Count("detach") <= 1
  /\ (pc = "returned") =>
       /\ Count("detach") = (IF attachErr = "ok" THEN 1 ELSE 0)
       /\ rc = (IF ~fileExists \/ attachErr /= "ok" \/ injectErr /= "none"
                THEN 2 ELSE 0)
  /\ (pc = "raised") => (wait_seconds < 0 /\ Count("detach") = 0)

C1_Witness ==
  /\ pc = "returned"
  /\ detachRaised
  /\ rc = 0
  /\ Count("detach") = 1

\* ------------------------------------------------------------------ C2
\* C2: a run whose script file does not exist makes none of the calls
\* attach, create_script, on, load, sleep, detach, and once it has returned
\* the code is 2 and the log holds exactly one line, an error.
C2_MissingFile ==
  (diag /\ ~fileExists) =>
    /\ \A op \in {"attach", "create_script", "on", "load", "sleep", "detach"} :
         Count(op) = 0
    /\ pc \in {"main", "check_file", "returned", "exited"}
    /\ (pc = "returned") => (rc = 2 /\ log = <<Rec("ERROR", "script_not_found")>>)
    /\ (pc = "exited") => (exitStatus = 2 /\ Len(log) = 1)

C2_Witness ==
  /\ pc = "returned"
  /\ ~fileExists
  /\ wait_seconds = MaxWait
  /\ rc = 2

\* ------------------------------------------------------------------ C3
\* C3: with the file present, a run whose process does not exist ends with
\* code 2 and the single log line "process not found"; a run whose attach
\* fails otherwise ends with code 2 and a different single log line; neither
\* creates or loads a script.
C3_AttachFailure ==
  /\ (Ended /\ fileExists /\ process_name \notin running) =>
       /\ rc = 2
       /\ log = <<Rec("ERROR", "process_not_found")>>
  /\ (Ended /\ attachErr = "OtherError") =>
       /\ rc = 2
       /\ log = <<Rec("ERROR", "attach_failed")>>
       /\ log /= <<Rec("ERROR", "process_not_found")>>
  /\ (attachErr \notin {"none", "ok"}) =>
       /\ Count("create_script") = 0
       /\ Count("load") = 0
       /\ script = "none"

C3_Witness ==
  /\ pc = "returned"
  /\ fileExists
  /\ process_name \notin running
  /\ attachErr = "ProcessNotFoundError"

\* ------------------------------------------------------------------ C4
\* C4, as stated: once load has returned for a body that did not throw, the
\* wrapper has sent boot, finished and an exports message that reports
\* whether decrypt is a function, in this order, and no fatal message.
C4_BootFinishedExportsResult ==
  (script = "loaded" /\ ~raw_js.throws) =>
    /\ Len(sent) = 3
    /\ sent[1] = BootMsg
    /\ sent[2] = FinishedMsg
    /\ sent[3].stage = "exports"
    /\ sent[3].error = "absent"
    /\ (sent[3].hasDecrypt = "true") <=> (raw_js.rpc = "exports_decrypt_fn")
    /\ NoFatalSent

\* C4, amended: the third message is an exports message that reports
\* whether decrypt is a function unless the check itself threw, in which
\* case it carries the error of the check.
C4_BootFinishedExports ==
  (script = "loaded" /\ ~raw_js.throws) =>
    /\ Len(sent) = 3
    /\ sent[1] = BootMsg
    /\ sent[2] = FinishedMsg
    /\ sent[3].stage = "exports"
    /\ IF raw_js.rpc \in {"undeclared", "exports_getter_throws"}
       THEN sent[3].error /= "absent" /\ sent[3].hasDecrypt = "absent"
       ELSE /\ sent[3].error = "absent"
            /\ (sent[3].hasDecrypt = "true") <=> (raw_js.rpc = "exports_decrypt_fn")
    /\ NoFatalSent

C4_Witness ==
  /\ script = "loaded"
  /\ ~raw_js.throws
  /\ raw_js.rpc = "exports_decrypt_other"
  /\ Len(sent) = 3
  /\ sent[3].hasDecrypt = "false"

\* ------------------------------------------------------------------ C5
\* C5: for a body that throws, the wrapper sends boot and then fatal and
\* nothing else; fatal has been sent when the exception is about to leave
\* the wrapper and when it has left.
C5_FatalBeforeRethrow ==
  (raw_js.throws /\ wpc /= "idle") =>
    /\ \A i \in DOMAIN sent : sent[i] /= FinishedMsg /\ sent[i].stage /= "exports"
    /\ (wpc \in {"rethrow", "threw"}) => (sent = <<BootMsg, FatalMsg>>)
    /\ wpc \in {"boot", "body", "fatal", "rethrow", "threw"}

C5_Witness ==
  /\ raw_js.throws
  /\ wpc = "threw"
  /\ script = "loaded"
  /\ sent = <<BootMsg, FatalMsg>>

\* ------------------------------------------------------------------ C6
\* C6: once attach, create_script and load have returned, a run given a
\* non-negative wait never enters the failure handler and returns 0,
\* whatever the wrapper and the runtime have sent.
C6_InjectedErrorsNotFailures ==
  (script = "loaded" /\ wait_seconds >= 0) =>
    /\ pc \notin {"except", "raised"}
    /\ (pc = "returned") => (rc = 0)
    /\ (pc = "exited") => (exitStatus = 0)

C6_Witness ==
  /\ pc = "returned"
  /\ rc = 0
  /\ raw_js.throws
  /\ \E i \in DOMAIN log : log[i] = Rec("ERROR", "js_error")
  /\ \E i \in DOMAIN sent : Fatal(sent[i])

\* ------------------------------------------------------------------ C7
\* C7: when read, create_script, on or load raised, the run goes to the
\* handler and from there returns 2 with detach called exactly once, whether
\* or not detach raised, without probe or sleep.
C7_InjectFailureCleanup ==
  (injectErr /= "none") =>
    /\ pc \in {"except", "returned", "exited"}
    /\ Count("exports_sync") = 0
    /\ Count("sleep") = 0
    /\ (pc \in {"returned", "exited"}) =>
         /\ rc = 2
         /\ Count("detach") = 1
         /\ hist[Len(hist)] = "detach"

C7_Witness ==
  /\ pc = "returned"
  /\ injectErr = "on"
  /\ detachRaised
  /\ rc = 2
  /\ Count("detach") = 1

\* ------------------------------------------------------------------ C8
\* a message whose interpretation fails inside the try
Uninterpretable(m) ==
  \/ ~m.mapping
  \/ m.type = "error" /\ (m.description = "Int" \/ m.stack = "Int")

\* C8: every invocation of the callback returns without raising, consumes
\* its message, leaves the remaining messages deliverable, and when the
\* interpretation of the message failed the last line it logged is the
\* parse-failure line.
C8_SinkNeverRaises ==
  [][(sinkCalls' = sinkCalls + 1) =>
       /\ ~sinkRaised'
       /\ chan' = Tail(chan)
       /\ handler' /\ session' = "attached"
       /\ Uninterpretable(Head(chan)) =>
            /\ Len(log') > Len(log)
            /\ log'[Len(log')] = Rec("ERROR", "parse_failed")
       /\ ~Uninterpretable(Head(chan)) =>
            /\ Len(log') > Len(log)
            /\ \A i \in (Len(log) + 1)..Len(log') : log'[i].msg /= "parse_failed"]_vars

C8_Witness ==
  /\ sinkCalls = 2
  /\ Len(log) >= 3
  /\ log[1] = Rec("ERROR", "js_error")
  /\ log[2] = Rec("ERROR", "parse_failed")
  /\ ~sinkRaised

\* ------------------------------------------------------------------ C9
\* C9: the host thread never calls decrypt, and after a probe that failed a
\* run given a non-negative wait goes on to the sleep and the detach and
\* returns 0, the failure being one error line in the log.
C9_ProbeReadOnly ==
  /\ Count("decrypt") = 0
  /\ (probeErr \in {"getattr_raises", "exports_sync_raises"} /\ wait_seconds >= 0) =>
       /\ pc \in {"sleep", "sleeping", "detach", "finish", "returned", "exited"}
       /\ \E i \in DOMAIN log :
            log[i] \in {Rec("ERROR", "py_getattr_failed"),
                        Rec("ERROR", "py_exports_unavailable")}
       /\ (pc \in {"returned", "exited"}) =>
            /\ rc = 0
            /\ Count("sleep") = 1
            /\ Count("sleep_done") = 1
            /\ Count("detach") = 1

C9_Witness ==
  /\ pc = "returned"
  /\ probeErr = "exports_sync_raises"
  /\ rc = 0
  /\ Count("detach") = 1

\* ----------------------------------------------------------------- C10
\* C10: without --diag nothing is called and nothing is logged, and the
\* program ends with the two usage lines printed and status 0, whatever
\* --proc, --js and --wait are.
C10_NoDiagNoOp ==
  (~diag) =>
    /\ hist = <<>>
    /\ log = <<>>
    /\ session = "none"
    /\ script = "none"
    /\ pc \in {"main", "exited"}
    /\ (pc = "exited") => (exitStatus = 0 /\ stdout = <<"usage_1", "usage_2">>)

C10_Witness ==
  /\ ~diag
  /\ pc = "exited"
  /\ exitStatus = 0
  /\ wait_seconds = -1
  /\ ~fileExists


\* ----------------------------------------------------------------- C11
\* C11: no invocation of the callback happens once the host thread has
\* called session.detach().
C11_NoSinkAfterDetach ==
  [][(sinkCalls' = sinkCalls + 1) => (Count("detach") = 0)]_vars


\* ----------------------------------------------------------------- C12
\* the calls of hist that belong to the set ops, in order
Only(ops) == SelectSeq(hist, LAMBDA x : x \in ops)
IsPrefix(a, b) == Len(a) <= Len(b) /\ a = SubSeq(b, 1, Len(a))

\* what the host thread does after load for a wait of w ticks
AfterLoad(w) ==
  <<"exports_sync", "sleep">> \o [i \in 1..w |-> "tick"] \o <<"sleep_done", "detach">>

\* C12: in a run whose load returned and whose wait is non-negative, the
\* host thread goes through probe, start of the sleep, as many ticks as the
\* configured wait, end of the sleep and detach, in this order and once
\* each, and it has returned, with 0, only when detach was the last of them.
C12_ProbeSleepDetachReturn ==
  (script = "loaded" /\ wait_seconds >= 0) =>
    /\ IsPrefix(Only({"exports_sync", "sleep", "tick", "sleep_done", "detach"}),
                AfterLoad(wait_seconds))
    /\ (pc \in {"returned", "exited"}) =>
         /\ Only({"exports_sync", "sleep", "tick", "sleep_done", "detach"})
              = AfterLoad(wait_seconds)
         /\ hist[Len(hist)] = "detach"
         /\ rc = 0

C12_Witness ==
  /\ pc = "returned"
  /\ script = "loaded"
  /\ wait_seconds = MaxWait
  /\ Count("tick") = MaxWait
  /\ hist[Len(hist)] = "detach"
  /\ rc = 0

\* ----------------------------------------------------------------- C13
\* messages of the wrapper that close a run: exports (result or error), fatal
Closing == {i \in DOMAIN sent : sent[i].stage \in {"exports", "fatal"}}

\* C13: a body that does not throw never takes the wrapper into the outer
\* catch, whatever the export check does; when the check fails, the wrapper
\* ends with an exports message that carries the error and no fatal message;
\* a wrapper that has sent boot sends at most one closing message, and when
\* it has ended it has sent exactly one, as its last message.
C13_CheckNeverEscapes ==
  /\ (~raw_js.throws) => (wpc \notin {"fatal", "rethrow", "threw"})
  /\ (wpc = "end" /\ raw_js.rpc \in {"undeclared", "exports_getter_throws"}) =>
       /\ sent[Len(sent)].stage = "exports"
       /\ sent[Len(sent)].error /= "absent"
       /\ NoFatalSent
       /\ \A i \in DOMAIN chan : chan[i] /= UncaughtError
  /\ Cardinality(Closing) <= 1
  /\ (wpc \in {"end", "threw"}) =>
       /\ sent[1] = BootMsg
       /\ Closing = {Len(sent)}

C13_Witness ==
  /\ wpc = "end"
  /\ script = "loaded"
  /\ raw_js.rpc = "exports_getter_throws"
  /\ sent[Len(sent)].error = "String(e)"
  /\ Len(sent) = 3

\* ----------------------------------------------------------------- C14
\* C14: load is called only after create_script and a successful
\* registration of the callback, in this order; the wrapper runs and sends
\* only while the callback is registered; load is not called after a
\* registration that raised.
C14_SinkBeforeLoad ==
  /\ IsPrefix(Only({"create_script", "on", "load"}), <<"create_script", "on", "load">>)
  /\ (Count("load") > 0) => handler
  /\ (wpc /= "idle" \/ sent /= <<>> \/ chan /= <<>>) => handler
  /\ (injectErr = "on") => (Count("load") = 0 /\ wpc = "idle" /\ ~handler)

C14_Witness ==
  /\ wpc = "body"
  /\ handler
  /\ sent = <<BootMsg>>
  /\ chan = <<SendMessage(BootMsg)>>
  /\ hist[Len(hist)] = "load"
  /\ hist[Len(hist) - 1] = "on"

====
